---- MODULE Spec2Model ----
(***************************************************************************)
(* A model of cinder_snapshooter.snapshot_destroyer: process_snapshots     *)
(* (the scan of one project's snapshots, the deletion of the expired ones  *)
(* and the polling that confirms each deletion) and cli (the reduction of  *)
(* the per-project results to the exit status).                            *)
(*                                                                         *)
(* Time is a single integer clock.  One calendar day lasts DayLen clock    *)
(* units; a date is the ordinal of its day and midnight UTC of day d is    *)
(* the instant d * DayLen.  `now` is the latest time any worker has read;  *)
(* time passes between two reads, so a read returns `now` or any later     *)
(* time.  The wall clock read by datetime.now and the clock tenacity       *)
(* measures delays with are the same clock here.                           *)
(***************************************************************************)
EXTENDS Integers, Sequences, FiniteSets, TLC

VARIABLES
    now,                      \* the UTC time, as last read
    dry_run,                  \* args.dry_run
    wait_completion_timeout,  \* args.wait_completion_timeout
    pool_size,                \* args.pool_size
    projects,                 \* the projects run_on_all_projects runs on
    store,                    \* per project: the snapshots the backend holds
    status,                   \* per project: the backend status of each snapshot
    pc,                       \* per project: the position of process_snapshots
    listing,                  \* per project: what snapshots(status="available") returned
    idx,                      \* per project: the position of the for loop in the listing
    destroyed_snapshot,       \* per project: the local destroyed_snapshot
    errors,                   \* per project: the local errors
    start_time,               \* per project: when the Retrying loop began
    wake,                     \* per project: when the current sleep ends
    lookup,                   \* per project: the outcome of the last get_snapshot
    trace,                    \* per project: the backend calls made and the log events emitted
    result,                   \* per project: the value process_snapshots returned
    run,                      \* how many times the command has been started
    cli_state                 \* "running", "returned" (exit status 0) or "exit1" (sys.exit(1))

vars == <<now, dry_run, wait_completion_timeout, pool_size, projects, store, status, pc,
          listing, idx, destroyed_snapshot, errors, start_time, wake, lookup, trace,
          result, run, cli_state>>

---------------------------------------------------------------------------
(* Bounds of the model *)

\* the largest number of projects
NumProjects == 2
\* the largest number of snapshots a project holds
MaxSnapshots == 2
\* the largest wait_completion_timeout
MaxTimeout == 1
\* the number of clock units in one day
DayLen == 2
\* the command starts at midnight of 2021-06-03 (the first read of the clock
\* may return a later time)
StartTime == 2 * DayLen

\* without a sleep, time passes up to one unit after the start; it passes
\* beyond that while a worker sleeps
MaxTime == StartTime + 1

Max(a, b) == IF a >= b THEN a ELSE b

\* what a read of the clock may return when the time is at least t
Later(t) == t..Max(t, MaxTime)

---------------------------------------------------------------------------
(* Dates and metadata *)

\* what date.fromisoformat raises on a string that is no ISO date
ValueError == -1

\* the values an expire_at key may hold: three ISO dates and a string that is none
ExpireAtValues == {"2021-06-02", "2021-06-03", "2021-06-04", "2021-06-31"}

\* datetime.date.fromisoformat: the day's ordinal (counted from 2021-06-01)
fromisoformat(s) ==
    CASE s = "2021-06-02" -> 1
      [] s = "2021-06-03" -> 2
      [] s = "2021-06-04" -> 3
      [] OTHER -> ValueError

\* datetime.datetime.combine(date, time.min, tzinfo=utc): midnight UTC of the day
combine(date) == date * DayLen

\* a metadata mapping is a set of <<key, value>> pairs with distinct keys
Metadatas == {{}} \cup {{<<"expire_at", v>>} : v \in ExpireAtValues}

HasKey(metadata, k) == \E kv \in metadata : kv[1] = k

Get(metadata, k) == (CHOOSE kv \in metadata : kv[1] = k)[2]

\* a snapshot as the backend returns it
Snapshot(i, md) == [id |-> i, metadata |-> md]

\* the stores a project may hold: at most n snapshots, of ids 1..n, with
\* metadata among mds
Stores(n, mds) ==
    UNION {[1..k -> mds] : k \in 0..n}

---------------------------------------------------------------------------
(* The pure parts of process_snapshots *)

\* Evaluate without the membership test of line 45: the subscript of line 48
\* raises KeyError
EvaluateNoKeyTest(metadata, t) ==
    IF ~HasKey(metadata, "expire_at") THEN "ValueError"
    ELSE LET date == fromisoformat(Get(metadata, "expire_at")) IN
         IF date = ValueError THEN "ValueError"
         ELSE IF t > combine(date) THEN "Expired"
         ELSE "Keep"

\* Evaluate with now >= expire_at at line 53
EvaluateFromMidnight(metadata, t) ==
    IF ~HasKey(metadata, "expire_at") THEN "Skip"
    ELSE LET date == fromisoformat(Get(metadata, "expire_at")) IN
         IF date = ValueError THEN "ValueError"
         ELSE IF t >= combine(date) THEN "Expired"
         ELSE "Keep"

\* Evaluate with the expire_at date promoted to the end of its day at line 49
EvaluateEndOfDay(metadata, t) ==
    IF ~HasKey(metadata, "expire_at") THEN "Skip"
    ELSE LET date == fromisoformat(Get(metadata, "expire_at")) IN
         IF date = ValueError THEN "ValueError"
         ELSE IF t > combine(date + 1) THEN "Expired"
         ELSE "Keep"

\* lines 45-53: what the loop body decides for a snapshot at time t
Evaluate(metadata, t) ==
    IF ~HasKey(metadata, "expire_at") THEN "Skip"
    ELSE LET date == fromisoformat(Get(metadata, "expire_at")) IN
         IF date = ValueError THEN "ValueError"
         ELSE IF t > combine(date) THEN "Expired"
         ELSE "Keep"

\* line 60 with the test inverted
ShouldDeleteInverted(dry) == dry

\* line 60 with the test dropped
ShouldDeleteAlways(dry) == TRUE

\* line 60: whether an expired snapshot is deleted
ShouldDelete(dry) == ~dry

\* stop_after_delay stopping only when the delay exceeds max_delay
stop_after_delayStrict(t, started, max_delay) == t - started > max_delay

\* stop_after_attempt(1) for stop_after_delay: the first failed attempt is the last
stop_after_attempt(t, started, max_delay) == TRUE

\* tenacity.stop_after_delay(max_delay), asked after a failed attempt at time t
stop_after_delay(t, started, max_delay) == t - started >= max_delay

\* tenacity.wait_random(min=1, max=2): the sleeps between two attempts
WaitMin == 1
WaitMax == 2
wait_random == WaitMin..WaitMax

\* check_snapshot_deletion without the raise of line 98: a snapshot that is
\* found is taken as deleted
check_snapshot_deletionNoTryAgain(outcome) == outcome # "error"

\* check_snapshot_deletion on a lookup outcome: TRUE is "return True",
\* FALSE is "raise TryAgain" or the lookup's own error, both retried
check_snapshot_deletion(outcome) == outcome = "ResourceNotFound"

\* line 90 returning whether there were errors
ReturnValueInverted(errs) == errs # 0

\* line 90: the value process_snapshots returns
ReturnValue(errs) == errs = 0

\* line 114 with any(...) for all(...)
any(results) == \E p \in DOMAIN results : results[p]

\* lines 114-123: all(...) over the per-project results
all(results) == \A p \in DOMAIN results : results[p]

\* a backend call (with its outcome) or a log event (with what it reports) of a
\* worker; at is the time line 52 read, for the events logged at lines 54 and
\* 76, and 0 for the others
Ev(m, i, r) == [msg |-> m, id |-> i, res |-> r, at |-> 0]

EvAt(m, i, r, t) == [msg |-> m, id |-> i, res |-> r, at |-> t]

Log(p, events) == trace' = [trace EXCEPT ![p] = @ \o events]

Goto(p, where) == pc' = [pc EXCEPT ![p] = where]

\* lines 36-37 at module level: the workers share one errors counter
ExceptShared(p) ==
    /\ errors' = [q \in projects |-> errors[q] + 1]
    /\ Goto(p, "for")

\* line 83 with errors += 2 for errors += 1
ExceptTwice(p) ==
    /\ errors' = [errors EXCEPT ![p] = @ + 2]
    /\ Goto(p, "for")

\* line 83 with errors = 1 for errors += 1
ExceptOnce(p) ==
    /\ errors' = [errors EXCEPT ![p] = 1]
    /\ Goto(p, "for")

\* lines 81-83 with the try around the loop: the first error ends the scan
ExceptAbort(p) ==
    /\ errors' = [errors EXCEPT ![p] = @ + 1]
    /\ Goto(p, "raised")

\* lines 81-83: the except clause counts the error, and the loop goes on
Except(p) ==
    /\ errors' = [errors EXCEPT ![p] = @ + 1]
    /\ Goto(p, "for")

current(p) == listing[p][idx[p]]

---------------------------------------------------------------------------
(* The steps of process_snapshots for project p *)

\* utils.run_on_all_projects: a worker of the pool calls process_snapshots for
\* project p; at most pool_size calls run at a time
Running == {p \in projects : pc[p] \notin {"idle", "done", "raised"}}

StartWorker(p) ==
    /\ pc[p] = "idle"
    /\ Cardinality(Running) < pool_size
    /\ Goto(p, "start")
    /\ UNCHANGED <<now, dry_run, wait_completion_timeout, pool_size, projects, store, status,
                   listing, idx, destroyed_snapshot, errors, start_time, wake, lookup,
                   trace, result, run, cli_state>>

\* line 38: snapshots(status="available") returns the available snapshots
ListSnapshots(p) ==
    /\ pc[p] = "start"
    /\ listing' = [listing EXCEPT ![p] =
           SelectSeq([i \in 1..Len(store[p]) |-> Snapshot(i, store[p][i])],
                     LAMBDA s : status[p][s.id] = "available")]
    /\ Goto(p, "for")
    /\ UNCHANGED <<now, dry_run, wait_completion_timeout, pool_size, projects, store, status,
                   idx, destroyed_snapshot, errors, start_time, wake, lookup, trace,
                   result, run, cli_state>>

\* line 38: the listing call, or the fetch of its next element, raises;
\* the for statement is outside the try, so the exception leaves the function
ListingRaises(p) ==
    /\ pc[p] \in {"start", "for"}
    /\ Log(p, <<Ev("snapshots", 0, "raise")>>)
    /\ Goto(p, "raised")
    /\ UNCHANGED <<now, dry_run, wait_completion_timeout, pool_size, projects, store, status,
                   listing, idx, destroyed_snapshot, errors, start_time, wake, lookup,
                   result, run, cli_state>>

\* line 38: the for loop takes the next snapshot
ForNext(p) ==
    /\ pc[p] = "for"
    /\ idx[p] < Len(listing[p])
    /\ idx' = [idx EXCEPT ![p] = @ + 1]
    /\ Goto(p, "body")
    /\ UNCHANGED <<now, dry_run, wait_completion_timeout, pool_size, projects, store, status,
                   listing, destroyed_snapshot, errors, start_time, wake, lookup, trace,
                   result, run, cli_state>>

\* lines 39-60 and 75-83: the body up to the delete call
Body(p) ==
    /\ pc[p] = "body"
    /\ \E t \in Later(now) :
       LET snapshot == current(p)
           decision == Evaluate(snapshot.metadata, t)
           looking  == Ev("Looking at snapshot", snapshot.id, decision)
       IN  CASE decision = "Skip" ->
                  /\ Log(p, <<looking>>)
                  /\ Goto(p, "for")
                  /\ UNCHANGED <<errors, now>>
             [] decision = "ValueError" ->
                  /\ Log(p, <<looking, Ev("Failed to delete snapshot", snapshot.id, "ValueError")>>)
                  /\ Except(p)
                  /\ UNCHANGED now
             [] decision = "Keep" ->
                  /\ now' = t
                  /\ Log(p, <<looking, EvAt("Keeping snapshot, still valid", snapshot.id, "", t)>>)
                  /\ Goto(p, "for")
                  /\ UNCHANGED errors
             [] decision = "Expired" ->
                  /\ now' = t
                  /\ Log(p, <<looking, EvAt("Deleting snapshot", snapshot.id, "", t)>>)
                  /\ Goto(p, IF ShouldDelete(dry_run) THEN "delete" ELSE "for")
                  /\ UNCHANGED errors
    /\ UNCHANGED <<dry_run, wait_completion_timeout, pool_size, projects, store, status,
                   listing, idx, destroyed_snapshot, start_time, wake, lookup, result,
                   run, cli_state>>

\* line 61 without the Retrying loop after it: the scan goes on with the next
\* snapshot while the deletion is under way
DeleteSnapshotNoWait(p) ==
    /\ pc[p] = "delete"
    /\ Log(p, <<Ev("delete_snapshot", current(p).id, "ok")>>)
    /\ status' = [status EXCEPT ![p][current(p).id] = "deleting"]
    /\ Goto(p, "for")
    /\ UNCHANGED <<now, dry_run, wait_completion_timeout, pool_size, projects, store,
                   listing, idx, destroyed_snapshot, errors, start_time, wake, lookup,
                   result, run, cli_state>>

\* line 61: delete_snapshot returns; lines 62-65: the Retrying loop begins
DeleteSnapshot(p) ==
    /\ pc[p] = "delete"
    /\ Log(p, <<Ev("delete_snapshot", current(p).id, "ok")>>)
    /\ status' = [status EXCEPT ![p][current(p).id] = "deleting"]
    /\ \E t \in Later(now) :
         /\ now' = t
         /\ start_time' = [start_time EXCEPT ![p] = t]
    /\ Goto(p, "attempt")
    /\ UNCHANGED <<dry_run, wait_completion_timeout, pool_size, projects, store,
                   listing, idx, destroyed_snapshot, errors, wake, lookup,
                   result, run, cli_state>>

\* line 61 outside the try: the error of delete_snapshot leaves the function
DeleteRaisesUncaught(p) ==
    /\ pc[p] = "delete"
    /\ Log(p, <<Ev("delete_snapshot", current(p).id, "raise")>>)
    /\ Goto(p, "raised")
    /\ UNCHANGED <<now, dry_run, wait_completion_timeout, pool_size, projects, store, status,
                   listing, idx, destroyed_snapshot, errors, start_time, wake, lookup,
                   result, run, cli_state>>

\* line 61 with its error swallowed: the Retrying loop begins all the same
DeleteRaisesThenPolls(p) ==
    /\ pc[p] = "delete"
    /\ Log(p, <<Ev("delete_snapshot", current(p).id, "raise")>>)
    /\ \E t \in Later(now) :
         /\ now' = t
         /\ start_time' = [start_time EXCEPT ![p] = t]
    /\ Goto(p, "attempt")
    /\ UNCHANGED <<dry_run, wait_completion_timeout, pool_size, projects, store, status,
                   listing, idx, destroyed_snapshot, errors, wake, lookup,
                   result, run, cli_state>>

\* line 61: delete_snapshot raises; lines 81-83 count the error
DeleteRaises(p) ==
    /\ pc[p] = "delete"
    /\ Log(p, <<Ev("delete_snapshot", current(p).id, "raise"),
                Ev("Failed to delete snapshot", current(p).id, "delete")>>)
    /\ Except(p)
    /\ UNCHANGED <<now, dry_run, wait_completion_timeout, pool_size, projects, store, status,
                   listing, idx, destroyed_snapshot, start_time, wake, lookup, result,
                   run, cli_state>>

\* the outcomes of block_storage.get_snapshot: the snapshot is gone, it is
\* still there, or the lookup fails with another error
LookupOutcomes == {"ResourceNotFound", "found", "error"}

\* lines 66-74 and 93-98: one attempt of the Retrying loop; the backend reports
\* a snapshot as not found once it has removed it (status "deleted").  The
\* trace tells a lookup that confirmed the deletion from one that is to be
\* retried; which outcome the last lookup had is in lookup.
Attempt(p) ==
    /\ pc[p] = "attempt"
    /\ \E outcome \in LookupOutcomes, t \in Later(now) :
         LET call == Ev("get_snapshot", current(p).id,
                        IF check_snapshot_deletion(outcome) THEN outcome ELSE "retry") IN
         /\ lookup' = [lookup EXCEPT ![p] = outcome]
         /\ IF check_snapshot_deletion(outcome)
            THEN /\ Log(p, <<call, Ev("Deleted snapshot", current(p).id, "")>>)
                 /\ destroyed_snapshot' = [destroyed_snapshot EXCEPT ![p] = @ + 1]
                 /\ status' = [status EXCEPT ![p][current(p).id] = "deleted"]
                 /\ Goto(p, "for")
                 /\ UNCHANGED <<errors, wake, now>>
            ELSE IF stop_after_delay(t, start_time[p], wait_completion_timeout)
            THEN \* RetryError leaves the loop; lines 81-83 count the error
                 /\ Log(p, <<call, Ev("Failed to delete snapshot", current(p).id, "RetryError")>>)
                 /\ now' = t
                 /\ Except(p)
                 /\ UNCHANGED <<destroyed_snapshot, wake, status>>
            ELSE \E delay \in wait_random :
                 /\ Log(p, <<call>>)
                 /\ now' = t
                 /\ wake' = [wake EXCEPT ![p] = t + delay]
                 /\ Goto(p, "sleep")
                 /\ UNCHANGED <<destroyed_snapshot, errors, status>>
    /\ UNCHANGED <<dry_run, wait_completion_timeout, pool_size, projects, store,
                   listing, idx, start_time, result, run, cli_state>>

\* the Retrying loop around line 61 too: an attempt begins with the delete
WakeToDelete(p) ==
    /\ pc[p] = "sleep"
    /\ now' = Max(now, wake[p])
    /\ Goto(p, "delete")
    /\ UNCHANGED <<dry_run, wait_completion_timeout, pool_size, projects, store, status,
                   listing, idx, destroyed_snapshot, errors, start_time, wake, lookup,
                   trace, result, run, cli_state>>

\* time.sleep never returning: the worker stays asleep
WakeNever(p) ==
    /\ pc[p] = "sleep"
    /\ FALSE
    /\ UNCHANGED vars

\* time.sleep returns when the sleep was due to end (the next read of the
\* clock may return a later time)
Wake(p) ==
    /\ pc[p] = "sleep"
    /\ now' = Max(now, wake[p])
    /\ Goto(p, "attempt")
    /\ UNCHANGED <<dry_run, wait_completion_timeout, pool_size, projects, store, status,
                   listing, idx, destroyed_snapshot, errors, start_time, wake, lookup,
                   trace, result, run, cli_state>>

\* lines 84-90: the listing is exhausted; the summary is logged and the result returned
Return(p) ==
    /\ pc[p] = "for"
    /\ idx[p] = Len(listing[p])
    /\ Log(p, <<Ev("Processed all snapshots in project", 0, "")>>)
    /\ result' = [result EXCEPT ![p] = ReturnValue(errors[p])]
    /\ Goto(p, "done")
    /\ UNCHANGED <<now, dry_run, wait_completion_timeout, pool_size, projects, store, status,
                   listing, idx, destroyed_snapshot, errors, start_time, wake, lookup,
                   run, cli_state>>

---------------------------------------------------------------------------
(* The command *)

\* utils.run_on_all_projects: the per-project results, once every call has
\* returned (what it does with a call that raised is not modelled: cli then
\* does not end)
run_on_all_projects == [p \in projects |-> result[p]]

\* lines 111-123: cli exits with status 1 unless every result is true
cli ==
    /\ cli_state = "running"
    /\ \A p \in projects : pc[p] = "done"
    /\ cli_state' = IF all(run_on_all_projects) THEN "returned" ELSE "exit1"
    /\ UNCHANGED <<now, dry_run, wait_completion_timeout, pool_size, projects, store, status,
                   pc, listing, idx, destroyed_snapshot, errors, start_time, wake, lookup,
                   trace, result, run>>

\* the command, once ended, is started a second time against the same backend
Rerun ==
    /\ cli_state # "running"
    /\ run = 1
    /\ run' = 2
    /\ cli_state' = "running"
    /\ pc' = [p \in projects |-> "idle"]
    /\ listing' = [p \in projects |-> <<>>]
    /\ idx' = [p \in projects |-> 0]
    /\ destroyed_snapshot' = [p \in projects |-> 0]
    /\ errors' = [p \in projects |-> 0]
    /\ start_time' = [p \in projects |-> 0]
    /\ wake' = [p \in projects |-> 0]
    /\ lookup' = [p \in projects |-> "none"]
    /\ trace' = [p \in projects |-> <<>>]
    /\ result' = [p \in projects |-> FALSE]
    /\ now' \in Later(now)
    /\ UNCHANGED <<dry_run, wait_completion_timeout, pool_size, projects, store, status>>

---------------------------------------------------------------------------
(* Specifications *)

\* the state before the command runs on the projects P, each holding one of
\* stores, with a timeout in timeouts and a pool size in pools, at time start
InitWith(P, stores, timeouts, pools, start) ==
    /\ now = start
    /\ pool_size \in pools
    /\ dry_run \in BOOLEAN
    /\ wait_completion_timeout \in timeouts
    /\ projects = P
    /\ store \in [P -> stores]
    /\ status = [p \in P |-> [i \in 1..Len(store[p]) |-> "available"]]
    /\ pc = [p \in P |-> "idle"]
    /\ listing = [p \in P |-> <<>>]
    /\ idx = [p \in P |-> 0]
    /\ destroyed_snapshot = [p \in P |-> 0]
    /\ errors = [p \in P |-> 0]
    /\ start_time = [p \in P |-> 0]
    /\ wake = [p \in P |-> 0]
    /\ lookup = [p \in P |-> "none"]
    /\ trace = [p \in P |-> <<>>]
    /\ result = [p \in P |-> FALSE]
    /\ run = 1
    /\ cli_state = "running"

\* one project, any listing
Init == InitWith({1}, Stores(MaxSnapshots, Metadatas), 0..MaxTimeout, {1}, StartTime)

Next ==
    \/ \E p \in projects : StartWorker(p)
    \/ \E p \in projects : ListSnapshots(p)
    \/ \E p \in projects : ListingRaises(p)
    \/ \E p \in projects : ForNext(p)
    \/ \E p \in projects : Body(p)
    \/ \E p \in projects : DeleteSnapshot(p)
    \/ \E p \in projects : DeleteRaises(p)
    \/ \E p \in projects : Attempt(p)
    \/ \E p \in projects : Wake(p)
    \/ \E p \in projects : Return(p)
    \/ cli

Spec == Init /\ [][Next]_vars

\* several projects, each holding no snapshot or one that expired the day
\* before, scanned concurrently
InitCli ==
    \E k \in 0..NumProjects :
        InitWith(1..k, Stores(1, {{<<"expire_at", "2021-06-02">>}}), {1}, {1, 2}, MaxTime)

SpecCli == InitCli /\ [][Next]_vars

\* one project, the command run again when it has ended
NextRerun == Next \/ Rerun

InitRerun == InitWith({1}, Stores(MaxSnapshots, Metadatas), {1}, {1}, StartTime)

SpecRerun == InitRerun /\ [][NextRerun]_vars

\* the steps of the worker that runs process_snapshots for project p
Worker(p) ==
    \/ StartWorker(p)
    \/ ListSnapshots(p)
    \/ ListingRaises(p)
    \/ ForNext(p)
    \/ Body(p)
    \/ DeleteSnapshot(p)
    \/ DeleteRaises(p)
    \/ Attempt(p)
    \/ Wake(p)
    \/ Return(p)

\* a worker that can take a step takes one: the thread that runs
\* process_snapshots is never suspended for ever, and every call it makes
\* (the backend's, time.sleep) returns or raises
Fairness == \A p \in 1..NumProjects : WF_vars(p \in projects /\ Worker(p))

\* one project whose snapshots expired the day before, under fair scheduling
InitLive ==
    InitWith({1}, Stores(MaxSnapshots, {{<<"expire_at", "2021-06-02">>}}), 0..MaxTimeout,
             {1}, StartTime)

SpecLive == InitLive /\ [][Next]_vars /\ Fairness

---------------------------------------------------------------------------
(* What the properties below read from a state *)

\* the positions of project p's trace
Events(p) == 1..Len(trace[p])

\* the events of project p with message m about snapshot i
EventsOf(p, m, i) == {k \in Events(p) : trace[p][k].msg = m /\ trace[p][k].id = i}

\* the events of project p with message m and outcome r
EventsWith(p, m, r) == {k \in Events(p) : trace[p][k].msg = m /\ trace[p][k].res = r}

\* the snapshots the listing of project p returned
Listed(p) == {listing[p][k] : k \in 1..Len(listing[p])}

NoExpireAt(s) == ~HasKey(s.metadata, "expire_at")

Malformed(s) ==
    /\ HasKey(s.metadata, "expire_at")
    /\ fromisoformat(Get(s.metadata, "expire_at")) = ValueError

WellFormed(s) ==
    /\ HasKey(s.metadata, "expire_at")
    /\ fromisoformat(Get(s.metadata, "expire_at")) # ValueError

\* the expire_at date of a snapshot whose expire_at is well formed
ExpireDate(s) == fromisoformat(Get(s.metadata, "expire_at"))

\* the UTC date at time t
DateOf(t) == t \div DayLen

\* the snapshot of project p with id i
SnapshotOf(p, i) == Snapshot(i, store[p][i])

Returned(p) == pc[p] = "done"

\* snapshot i of project p has had delete_snapshot called on it
DeleteCalled(p, i) == EventsOf(p, "delete_snapshot", i) # {}

\* the delete_snapshot calls of project p that raised
DeleteRaised(p) == EventsWith(p, "delete_snapshot", "raise")

\* the delete_snapshot calls of project p that were accepted and whose
\* snapshot no lookup has reported as not found
Unconfirmed(p) ==
    {k \in EventsWith(p, "delete_snapshot", "ok") :
        \A g \in EventsOf(p, "get_snapshot", trace[p][k].id) :
            trace[p][g].res # "ResourceNotFound"}

\* the positions of project p's listing that hold a malformed expire_at
MalformedListed(p) == {k \in 1..Len(listing[p]) : Malformed(listing[p][k])}

Failures(p) == {k \in Events(p) : trace[p][k].msg = "Failed to delete snapshot"}

Deletions(p) == {k \in Events(p) : trace[p][k].msg = "Deleted snapshot"}

---------------------------------------------------------------------------
(* C1 *)

\* C1: a snapshot whose metadata has no expire_at key is never passed to
\* delete_snapshot, never looked up, never reported as expired, deleted or
\* failed, and the two counters count exactly the deletions and the failures
\* reported, all of which are about other snapshots -- whatever dry_run is and
\* whatever the other snapshots do.
C1_ManualSnapshotsExempt ==
    \A p \in projects :
        /\ \A k \in Events(p) :
              trace[p][k].msg \in {"delete_snapshot", "get_snapshot", "Deleting snapshot",
                                   "Deleted snapshot", "Failed to delete snapshot"}
                  => ~NoExpireAt(SnapshotOf(p, trace[p][k].id))
        /\ errors[p] = Cardinality(Failures(p))
        /\ destroyed_snapshot[p] = Cardinality(Deletions(p))

\* a scan that has looked at a snapshot without expire_at and destroyed another
C1_Witness ==
    \E p \in projects :
        /\ Returned(p)
        /\ destroyed_snapshot[p] = 1
        /\ \E s \in Listed(p) :
              /\ NoExpireAt(s)
              /\ EventsOf(p, "Looking at snapshot", s.id) # {}

---------------------------------------------------------------------------
(* C2 *)

\* C2: when dry_run is false and process_snapshots has returned, every listed
\* snapshot with a well-formed expire_at has had delete_snapshot called on
\* it, unless it was kept at a time whose UTC date was not after its expire_at
\* date: a snapshot whose date was strictly before the UTC date at which it was
\* looked at is always passed to delete_snapshot, whatever failed before it.
C2_ExpiredAreDeleted ==
    \A p \in projects :
        (Returned(p) /\ ~dry_run) =>
            \A s \in Listed(p) :
                WellFormed(s) =>
                    \/ DeleteCalled(p, s.id)
                    \/ \E k \in EventsOf(p, "Keeping snapshot, still valid", s.id) :
                          ~(ExpireDate(s) < DateOf(trace[p][k].at))

\* the first snapshot failed (its delete raised or its confirmation timed
\* out) and the second, dated before the day it was looked at, was deleted
C2_Witness ==
    \E p \in projects :
        /\ Returned(p)
        /\ ~dry_run
        /\ Len(listing[p]) = 2
        /\ \E k \in EventsOf(p, "Failed to delete snapshot", listing[p][1].id) :
              trace[p][k].res \in {"delete", "RetryError"}
        /\ WellFormed(listing[p][2])
        /\ \E k \in EventsOf(p, "Deleting snapshot", listing[p][2].id) :
              ExpireDate(listing[p][2]) < DateOf(trace[p][k].at)
        /\ DeleteCalled(p, listing[p][2].id)

---------------------------------------------------------------------------
(* C3 *)

\* C3: when dry_run is true, no state of a scan holds a delete_snapshot or a
\* get_snapshot call, and destroyed_snapshot is 0 throughout.
C3_DryRunCallsNothing ==
    dry_run =>
        \A p \in projects :
            /\ \A k \in Events(p) : trace[p][k].msg \notin {"delete_snapshot", "get_snapshot"}
            /\ destroyed_snapshot[p] = 0

\* a dry run that has met an expired snapshot and a malformed one
C3_Witness ==
    \E p \in projects :
        /\ dry_run
        /\ Returned(p)
        /\ \E k \in Events(p) : trace[p][k].msg = "Deleting snapshot"
        /\ MalformedListed(p) # {}

---------------------------------------------------------------------------
(* C4 *)

\* C4 as stated: delete_snapshot is called only on a snapshot whose expire_at
\* date is strictly before the UTC date at which it was looked at.
C4_NeverDeletedOnOrAfterDate ==
    \A p \in projects :
        \A s \in Listed(p) :
            DeleteCalled(p, s.id) =>
                \A k \in EventsOf(p, "Deleting snapshot", s.id) :
                    ExpireDate(s) < DateOf(trace[p][k].at)

\* C4 amended: delete_snapshot is never called on a snapshot whose expire_at
\* date is strictly after the UTC date at which it is looked at, nor on one
\* whose expire_at date is that date when the time is exactly midnight UTC.
C4_NeverDeletedUntilMidnightPassed ==
    \A p \in projects :
        \A s \in Listed(p) :
            DeleteCalled(p, s.id) =>
                /\ EventsOf(p, "Deleting snapshot", s.id) # {}
                /\ \A k \in EventsOf(p, "Deleting snapshot", s.id) :
                      LET t == trace[p][k].at IN
                      /\ ~(ExpireDate(s) > DateOf(t))
                      /\ ~(ExpireDate(s) = DateOf(t) /\ t = combine(ExpireDate(s)))

\* a real run that kept a snapshot dated after the day, and one dated the
\* very day, looked at exactly at midnight
C4_Witness ==
    \E p \in projects :
        /\ Returned(p)
        /\ ~dry_run
        /\ \E s \in Listed(p) :
              \E k \in EventsOf(p, "Keeping snapshot, still valid", s.id) :
                  ExpireDate(s) > DateOf(trace[p][k].at)
        /\ \E s \in Listed(p) :
              \E k \in EventsOf(p, "Keeping snapshot, still valid", s.id) :
                  trace[p][k].at = combine(ExpireDate(s))

---------------------------------------------------------------------------
(* C5 *)

\* C5 as stated: when process_snapshots returns, errors is the number of
\* delete_snapshot calls that raised plus the number of confirmations that
\* never saw "not found".
C5_ErrorsAreDeleteAndTimeout ==
    \A p \in projects :
        Returned(p) =>
            errors[p] = Cardinality(DeleteRaised(p)) + Cardinality(Unconfirmed(p))

\* C5 amended: when process_snapshots returns, errors is the number of
\* delete_snapshot calls that raised, plus the number of confirmations that
\* never saw "not found", plus the number of listed snapshots whose expire_at
\* is malformed.
C5_ErrorsCountMalformedToo ==
    \A p \in projects :
        Returned(p) =>
            errors[p] = Cardinality(DeleteRaised(p)) + Cardinality(Unconfirmed(p))
                        + Cardinality(MalformedListed(p))

\* a scan with a malformed snapshot and a confirmation that timed out
C5_Witness ==
    \E p \in projects :
        /\ Returned(p)
        /\ Cardinality(MalformedListed(p)) = 1
        /\ Cardinality(Unconfirmed(p)) = 1
        /\ errors[p] = 2

---------------------------------------------------------------------------
(* C6 *)

\* C6: the value process_snapshots returns is true exactly when errors is 0
\* at the end of the scan, whatever destroyed_snapshot is.
C6_ResultIffNoError ==
    \A p \in projects :
        Returned(p) => (result[p] <=> errors[p] = 0)

\* a scan that destroyed a snapshot, failed on another and returned false
C6_Witness ==
    \E p \in projects :
        /\ Returned(p)
        /\ destroyed_snapshot[p] = 1
        /\ errors[p] = 1
        /\ result[p] = FALSE

---------------------------------------------------------------------------
(* C7 *)

\* what holds of every state, for C7: no snapshot is reported as failed twice
\* and errors counts the failures; and once process_snapshots has returned,
\* every listed snapshot has been looked at exactly once, and in a real run
\* every one found expired has had delete_snapshot called on it and, when the
\* delete was accepted, has been looked up
C7_State ==
    \A p \in projects :
        /\ \A s \in Listed(p) :
              Cardinality(EventsOf(p, "Failed to delete snapshot", s.id)) <= 1
        /\ errors[p] = Cardinality(Failures(p))
        /\ Returned(p) =>
              \A s \in Listed(p) :
                  /\ Cardinality(EventsOf(p, "Looking at snapshot", s.id)) = 1
                  /\ (~dry_run /\ EventsOf(p, "Deleting snapshot", s.id) # {}) =>
                        /\ DeleteCalled(p, s.id)
                        /\ EventsOf(p, "delete_snapshot", s.id) \subseteq DeleteRaised(p)
                           \/ EventsOf(p, "get_snapshot", s.id) # {}

\* what holds of every step, for C7: a step that changes errors adds exactly
\* one to it and leaves the scan at the for statement, on the same listing and
\* at the same position, ready to take the next snapshot
C7_Step ==
    \A p \in projects :
        errors'[p] # errors[p] =>
            /\ errors'[p] = errors[p] + 1
            /\ pc'[p] = "for"
            /\ idx'[p] = idx[p]
            /\ listing'[p] = listing[p]

\* C7: a failure on one snapshot (malformed expire_at, delete_snapshot raising,
\* confirmation timeout) never aborts the scan: it adds exactly one to errors,
\* the scan goes on with the next snapshot, every snapshot of the listing is
\* looked at, and the expired ones are deleted and looked up.
C7_FailureIsolated == [] C7_State /\ [][C7_Step]_vars

\* the first snapshot failed, the second was deleted and confirmed
C7_Witness ==
    \E p \in projects :
        /\ Returned(p)
        /\ Len(listing[p]) = 2
        /\ EventsOf(p, "Failed to delete snapshot", listing[p][1].id) # {}
        /\ EventsOf(p, "Deleted snapshot", listing[p][2].id) # {}
        /\ errors[p] = 1
        /\ destroyed_snapshot[p] = 1

---------------------------------------------------------------------------
(* C8 *)

\* C8 as stated: no failure, of the listing included, leaves process_snapshots
\* as an exception.
C8_NothingPropagates ==
    \A p \in projects : pc[p] # "raised"

\* C8 amended: no failure of delete_snapshot, of get_snapshot or of the
\* parsing of expire_at leaves process_snapshots: each is followed by the
\* count of an error or by another attempt, and the only exception that
\* leaves the function is the one the listing raised.
C8_OnlyListingPropagates ==
    \A p \in projects :
        /\ pc[p] = "raised" =>
              /\ trace[p] # <<>>
              /\ trace[p][Len(trace[p])].msg = "snapshots"
        /\ \A k \in DeleteRaised(p) :
              /\ k + 1 \in Events(p)
              /\ trace[p][k + 1].msg = "Failed to delete snapshot"
              /\ trace[p][k + 1].id = trace[p][k].id
        /\ \A k \in EventsWith(p, "get_snapshot", "retry") :
              IF k + 1 \in Events(p)
              THEN /\ trace[p][k + 1].msg \in {"Failed to delete snapshot", "get_snapshot"}
                   /\ trace[p][k + 1].id = trace[p][k].id
              ELSE pc[p] \in {"sleep", "attempt"}
        /\ \A k \in EventsWith(p, "Looking at snapshot", "ValueError") :
              /\ k + 1 \in Events(p)
              /\ trace[p][k + 1].msg = "Failed to delete snapshot"
        /\ errors[p] = Cardinality(Failures(p))

\* a scan in which a delete raised and a failing lookup ended a confirmation,
\* and which returned false
C8_Witness ==
    \E p \in projects :
        /\ Returned(p)
        /\ DeleteRaised(p) # {}
        /\ EventsWith(p, "get_snapshot", "retry") # {}
        /\ lookup[p] = "error"
        /\ errors[p] = 2
        /\ result[p] = FALSE

---------------------------------------------------------------------------
(* C9 *)

\* C9: when cli ends, it has exited with status 1 exactly if the result of
\* some project is false, and returned normally exactly if every result is
\* true.
C9_ExitStatus ==
    cli_state # "running" =>
        /\ \A p \in projects : Returned(p)
        /\ cli_state = "exit1" <=> (\E p \in projects : result[p] = FALSE)
        /\ cli_state = "returned" <=> (\A p \in projects : result[p] = TRUE)

\* two projects or more, one result true and one false, and exit status 1
C9_Witness ==
    /\ cli_state = "exit1"
    /\ \E p, q \in projects : result[p] = TRUE /\ result[q] = FALSE

---------------------------------------------------------------------------
(* C10 *)

\* no snapshot of project p's listing has expired
NoneExpired(p) ==
    \A s \in Listed(p) : WellFormed(s) => now <= combine(ExpireDate(s))

\* C10 as stated: a second run whose listing holds no expired snapshot ends
\* with destroyed_snapshot = 0 and errors = 0 and calls delete_snapshot on
\* nothing.
C10_SecondRunCountsNothing ==
    \A p \in projects :
        (run = 2 /\ Returned(p) /\ NoneExpired(p)) =>
            /\ destroyed_snapshot[p] = 0
            /\ errors[p] = 0
            /\ \A k \in Events(p) : trace[p][k].msg # "delete_snapshot"

\* C10 amended: a second run whose listing holds no expired snapshot ends
\* with destroyed_snapshot = 0, calls delete_snapshot on nothing, and ends
\* with errors equal to the number of listed snapshots whose expire_at is
\* malformed.
C10_SecondRunCountsMalformed ==
    \A p \in projects :
        (run = 2 /\ Returned(p) /\ NoneExpired(p)) =>
            /\ destroyed_snapshot[p] = 0
            /\ errors[p] = Cardinality(MalformedListed(p))
            /\ \A k \in Events(p) : trace[p][k].msg # "delete_snapshot"

\* a second run, after a first one whose deletion was confirmed, that has
\* looked at a snapshot still listed
C10_Witness ==
    \E p \in projects :
        /\ run = 2
        /\ Returned(p)
        /\ NoneExpired(p)
        /\ \E i \in 1..Len(store[p]) : status[p][i] = "deleted"
        /\ \E s \in Listed(p) : WellFormed(s)

---------------------------------------------------------------------------
(* C11 *)

\* the event that follows event k of project p's trace about the same snapshot
Decided(p, k, m) ==
    /\ k + 1 \in Events(p)
    /\ trace[p][k + 1].msg = m
    /\ trace[p][k + 1].id = trace[p][k].id

\* C11: a snapshot with a well-formed expire_at that has been looked at was
\* found Expired or Keep; it was found Expired exactly when the time read was
\* strictly greater than midnight UTC of its expire_at date, and Keep
\* otherwise, so that it is kept at that very midnight and expired one time
\* unit later.
C11_ExpiredIffAfterMidnight ==
    \A p \in projects :
        \A k \in Events(p) :
            LET e == trace[p][k]
                s == SnapshotOf(p, e.id) IN
            (e.msg = "Looking at snapshot" /\ WellFormed(s)) =>
                /\ e.res \in {"Expired", "Keep"}
                /\ e.res = "Expired" <=> Decided(p, k, "Deleting snapshot")
                /\ e.res = "Keep" <=> Decided(p, k, "Keeping snapshot, still valid")
                /\ e.res = "Expired" <=> trace[p][k + 1].at > combine(ExpireDate(s))
                /\ trace[p][k + 1].at = combine(ExpireDate(s)) => e.res = "Keep"
                /\ trace[p][k + 1].at = combine(ExpireDate(s)) + 1 => e.res = "Expired"

\* a scan that kept a snapshot looked at exactly at the midnight of its
\* expire_at date and found another expired one time unit after that midnight
C11_Witness ==
    \E p \in projects :
        /\ \E s \in Listed(p) :
              \E k \in EventsOf(p, "Keeping snapshot, still valid", s.id) :
                  WellFormed(s) /\ trace[p][k].at = combine(ExpireDate(s))
        /\ \E s \in Listed(p) :
              \E k \in EventsOf(p, "Deleting snapshot", s.id) :
                  WellFormed(s) /\ trace[p][k].at = combine(ExpireDate(s)) + 1

---------------------------------------------------------------------------
(* C12 *)

\* project p is in the Retrying loop of lines 62-74
Polling(p) == pc[p] \in {"attempt", "sleep"}

\* the last event of project p's trace
Last(p) == trace[p][Len(trace[p])]

\* what holds of every step, for C12: a step that leaves the Retrying loop
\* without a lookup that reported "not found" is the timeout; it adds exactly
\* one to errors, none to destroyed_snapshot, and goes on with the for loop
C12_Step ==
    \A p \in projects :
        (Polling(p) /\ ~Polling(p)' /\ lookup'[p] # "ResourceNotFound") =>
            /\ Last(p)' = Ev("Failed to delete snapshot", current(p).id, "RetryError")
            /\ errors'[p] = errors[p] + 1
            /\ destroyed_snapshot'[p] = destroyed_snapshot[p]
            /\ pc'[p] = "for"

\* C12: the Retrying loop always ends, whatever the lookups answer: a worker
\* in the loop leaves it, by a confirmation or by the timeout, which is
\* counted as one error; the scan itself then ends, and when a confirmation
\* has timed out process_snapshots returns false.
C12_PollingTerminates ==
    /\ \A p \in 1..NumProjects :
          /\ (p \in projects /\ Polling(p)) ~> (p \in projects /\ pc[p] = "for")
          /\ (p \in projects /\ Polling(p)) ~> (p \in projects /\ pc[p] \in {"done", "raised"})
          /\ [](p \in projects /\ Returned(p) /\ Unconfirmed(p) # {} => result[p] = FALSE)
    /\ [][C12_Step]_vars

\* a scan that returned false after a confirmation slept, looked the snapshot
\* up again, never saw "not found" and timed out
C12_Witness ==
    \E p \in projects :
        /\ Returned(p)
        /\ result[p] = FALSE
        /\ Unconfirmed(p) # {}
        /\ Cardinality(EventsWith(p, "get_snapshot", "retry")) >= 2
        /\ lookup[p] = "found"
        /\ EventsWith(p, "Failed to delete snapshot", "RetryError") # {}

---------------------------------------------------------------------------
(* C13 *)

\* the lookups of snapshot i made by project p
Lookups(p, i) == EventsOf(p, "get_snapshot", i)

\* C13: within one scan delete_snapshot is called at most once on a snapshot;
\* once it has been called, what follows about that snapshot is lookups and
\* the report of the outcome, never another delete, however many lookups are
\* retried and whether or not the confirmation times out.
C13_DeleteAtMostOnce ==
    \A p \in projects :
        \A i \in 1..Len(store[p]) :
            /\ Cardinality(EventsOf(p, "delete_snapshot", i)) <= 1
            /\ \A d \in EventsOf(p, "delete_snapshot", i) :
                  \A k \in Events(p) :
                      (k > d /\ trace[p][k].id = i) =>
                          trace[p][k].msg \in {"get_snapshot", "Deleted snapshot",
                                               "Failed to delete snapshot"}

\* a confirmation that looked the snapshot up twice or more and timed out,
\* after a single delete
C13_Witness ==
    \E p \in projects :
        \E i \in 1..Len(store[p]) :
            /\ Cardinality(EventsOf(p, "delete_snapshot", i)) = 1
            /\ Cardinality(Lookups(p, i)) >= 2
            /\ \E k \in EventsOf(p, "Failed to delete snapshot", i) :
                  trace[p][k].res = "RetryError"

---------------------------------------------------------------------------
(* C14 *)

\* the delete_snapshot calls of project p that were accepted and whose
\* snapshot a later lookup reported as not found
Confirmed(p) ==
    {k \in EventsWith(p, "delete_snapshot", "ok") :
        \E g \in Lookups(p, trace[p][k].id) :
            g > k /\ trace[p][g].res = "ResourceNotFound"}

\* C14: destroyed_snapshot is, in every state and so at the end of the scan,
\* the number of snapshots whose delete_snapshot returned and which a later
\* get_snapshot reported as not found; a snapshot whose delete was accepted
\* but never confirmed is not counted.
C14_DestroyedCountsConfirmed ==
    \A p \in projects :
        /\ destroyed_snapshot[p] = Cardinality(Confirmed(p))
        /\ Confirmed(p) \cap Unconfirmed(p) = {}
        /\ Returned(p) =>
              Cardinality(EventsWith(p, "delete_snapshot", "ok"))
                  = destroyed_snapshot[p] + Cardinality(Unconfirmed(p))

\* a scan that ended with one deletion confirmed and counted, and another
\* accepted but never confirmed
C14_Witness ==
    \E p \in projects :
        /\ Returned(p)
        /\ destroyed_snapshot[p] = 1
        /\ Cardinality(Confirmed(p)) = 1
        /\ Cardinality(Unconfirmed(p)) = 1

---------------------------------------------------------------------------
(* C15 *)

\* what holds of every step, for C15: an attempt whose lookup reports "not
\* found" ends the loop, adds one to destroyed_snapshot and none to errors;
\* an attempt with any other outcome (the snapshot found, the lookup failing)
\* adds nothing to destroyed_snapshot and, unless the time allowed has
\* elapsed, counts no error and sleeps before another attempt
C15_Step ==
    \A p \in projects :
        (pc[p] = "attempt" /\ pc'[p] # "attempt") =>
            IF lookup'[p] = "ResourceNotFound"
            THEN /\ pc'[p] = "for"
                 /\ destroyed_snapshot'[p] = destroyed_snapshot[p] + 1
                 /\ errors'[p] = errors[p]
            ELSE /\ lookup'[p] \in {"found", "error"}
                 /\ destroyed_snapshot'[p] = destroyed_snapshot[p]
                 /\ IF now' - start_time[p] < wait_completion_timeout
                    THEN /\ pc'[p] = "sleep"
                         /\ errors'[p] = errors[p]
                         /\ wake'[p] - now' \in WaitMin..WaitMax
                    ELSE /\ pc'[p] = "for"
                         /\ errors'[p] = errors[p] + 1

\* what holds of every state, for C15: a snapshot reported as deleted was
\* reported as not found by the lookup just before, whatever lookups were
\* retried earlier, and is not reported as failed
C15_State ==
    \A p \in projects :
        \A k \in Deletions(p) :
            /\ k - 1 \in EventsWith(p, "get_snapshot", "ResourceNotFound")
            /\ trace[p][k - 1].id = trace[p][k].id
            /\ EventsOf(p, "Failed to delete snapshot", trace[p][k].id) = {}

\* C15: in the Retrying loop "not found" is the only terminal success; the
\* snapshot found, or a lookup error, only leads to another attempt until the
\* time allowed has elapsed, so that retried lookups followed by "not found"
\* end with the snapshot counted as destroyed and errors unchanged.
C15_NotFoundIsSuccess == [] C15_State /\ [][C15_Step]_vars

\* a scan that retried a lookup, then saw "not found": one snapshot
\* destroyed, no error
C15_Witness ==
    \E p \in projects :
        \E i \in 1..Len(store[p]) :
            /\ Returned(p)
            /\ \E g \in EventsWith(p, "get_snapshot", "retry") :
                  /\ trace[p][g].id = i
                  /\ trace[p][g + 1] = Ev("get_snapshot", i, "ResourceNotFound")
            /\ EventsOf(p, "Deleted snapshot", i) # {}
            /\ destroyed_snapshot[p] = 1
            /\ errors[p] = 0

---------------------------------------------------------------------------
(* C16 *)

\* event k of project p's trace reports the end of a confirmation
Outcome(p, k) == trace[p][k].msg \in {"Deleted snapshot", "Failed to delete snapshot"}

\* the accepted delete_snapshot calls of project p whose confirmation has
\* not ended yet
Outstanding(p) ==
    {d \in EventsWith(p, "delete_snapshot", "ok") :
        ~ \E k \in Events(p) : k > d /\ Outcome(p, k) /\ trace[p][k].id = trace[p][d].id}

\* C16: within a project's scan at most one snapshot has a delete accepted
\* and its confirmation outstanding, and it is the snapshot the for loop is
\* at; the events of the trace follow the order of the listing; and a delete
\* or a lookup about a snapshot comes only after the confirmation of every
\* delete accepted before, about another snapshot, has ended in a deletion
\* counted or in an error counted.
C16_Sequential ==
    \A p \in projects :
        /\ Cardinality(Outstanding(p)) <= 1
        /\ \A d \in Outstanding(p) :
              /\ Polling(p)
              /\ trace[p][d].id = current(p).id
        /\ \A j, k \in Events(p) :
              (j < k /\ trace[p][j].id # 0 /\ trace[p][k].id # 0) =>
                  trace[p][j].id <= trace[p][k].id
        /\ \A d \in EventsWith(p, "delete_snapshot", "ok") :
              \A k \in Events(p) :
                  (/\ k > d
                   /\ trace[p][k].msg \in {"delete_snapshot", "get_snapshot"}
                   /\ trace[p][k].id # trace[p][d].id) =>
                      \E o \in Events(p) :
                          /\ d < o
                          /\ o < k
                          /\ Outcome(p, o)
                          /\ trace[p][o].id = trace[p][d].id
        /\ destroyed_snapshot[p] + errors[p]
              = Cardinality({k \in Events(p) : Outcome(p, k)})

\* the second snapshot is being confirmed, after the confirmation of the
\* first slept, looked it up again and ended
C16_Witness ==
    \E p \in projects :
        /\ Len(listing[p]) = 2
        /\ Cardinality(Lookups(p, listing[p][1].id)) >= 2
        /\ pc[p] = "sleep"
        /\ idx[p] = 2
        /\ Cardinality(Outstanding(p)) = 1

---------------------------------------------------------------------------
(* C17 *)

\* what the call of process_snapshots for project p reads and writes: its
\* locals, its client's backend, its log
Locals(p) ==
    <<pc[p], listing[p], idx[p], destroyed_snapshot[p], errors[p], start_time[p], wake[p],
      lookup[p], trace[p], result[p], store[p], status[p]>>

\* what holds of every step, for C17: a step changes what belongs to one
\* project at most, so that a worker, asleep or not, sees nothing of the
\* steps of another
C17_Step ==
    \A p, q \in projects :
        (p # q /\ Locals(p)' # Locals(p)) => Locals(q)' = Locals(q)

\* what holds of every state, for C17: the counters and the result of project
\* p are those its own listing and the answers of its own backend give, as in
\* a scan run alone
C17_State ==
    \A p \in projects :
        /\ destroyed_snapshot[p] = Cardinality(EventsWith(p, "get_snapshot", "ResourceNotFound"))
        /\ Returned(p) =>
              /\ errors[p] = Cardinality(DeleteRaised(p)) + Cardinality(Unconfirmed(p))
                              + Cardinality(EventsWith(p, "Looking at snapshot", "ValueError"))
              /\ result[p] = (errors[p] = 0)
              /\ Cardinality(EventsWith(p, "Processed all snapshots in project", "")) = 1

\* C17: concurrent workers share no mutable state: under every interleaving
\* of the scans of several projects, each step touches one project only and
\* each project ends with the counters and the result its own listing and
\* backend answers give.
C17_NoSharedState == [] C17_State /\ [][C17_Step]_vars

\* two workers in their Retrying loops at once: one asleep, the other awake
\* again after its own sleep
C17_Witness ==
    \E p, q \in projects :
        /\ p # q
        /\ pool_size = 2
        /\ pc[p] = "sleep"
        /\ pc[q] = "attempt"
        /\ EventsWith(q, "get_snapshot", "retry") # {}

---------------------------------------------------------------------------
(* C18 *)

\* C18: get_snapshot is called about a snapshot only after delete_snapshot
\* returned for that snapshot earlier in the same scan; when delete_snapshot
\* raises, the very next event reports the failure of that snapshot, which is
\* counted, and the snapshot is never looked up.
C18_LookupOnlyAfterDelete ==
    \A p \in projects :
        /\ \A g \in EventsWith(p, "get_snapshot", "ResourceNotFound")
                     \cup EventsWith(p, "get_snapshot", "retry") :
              \E d \in EventsWith(p, "delete_snapshot", "ok") :
                  d < g /\ trace[p][d].id = trace[p][g].id
        /\ \A d \in DeleteRaised(p) :
              /\ Lookups(p, trace[p][d].id) = {}
              /\ d + 1 \in Events(p)
              /\ trace[p][d + 1] = Ev("Failed to delete snapshot", trace[p][d].id, "delete")
        /\ errors[p] >= Cardinality(DeleteRaised(p))
        /\ Polling(p) => Last(p).msg \in {"delete_snapshot", "get_snapshot"}

\* a scan in which the delete of one snapshot raised and the delete of
\* another was accepted and then looked up
C18_Witness ==
    \E p \in projects :
        /\ Returned(p)
        /\ \E d \in DeleteRaised(p) : Lookups(p, trace[p][d].id) = {}
        /\ \E d \in EventsWith(p, "delete_snapshot", "ok") : Lookups(p, trace[p][d].id) # {}
        /\ errors[p] >= 1

---------------------------------------------------------------------------
(* C19 *)

\* C19: a snapshot whose delete_snapshot returned is looked up at most
\* wait_completion_timeout + 1 times, and at least once by the time its
\* confirmation has ended or sleeps -- also when wait_completion_timeout is 0,
\* the stop condition being asked only after a failed attempt.
C19_LookupsBounded ==
    \A p \in projects :
        \A d \in EventsWith(p, "delete_snapshot", "ok") :
            LET n == Cardinality(Lookups(p, trace[p][d].id)) IN
            /\ n <= wait_completion_timeout + 1
            /\ (d \notin Outstanding(p) \/ pc[p] = "sleep") => n >= 1
            /\ (d \in Outstanding(p) /\ pc[p] = "sleep") => n <= wait_completion_timeout

\* a confirmation that timed out after wait_completion_timeout + 1 lookups,
\* having slept at least once
C19_Witness ==
    \E p \in projects :
        \E d \in EventsWith(p, "delete_snapshot", "ok") :
            /\ wait_completion_timeout >= 1
            /\ d \notin Outstanding(p)
            /\ d \in Unconfirmed(p)
            /\ Cardinality(Lookups(p, trace[p][d].id)) = wait_completion_timeout + 1

---------------------------------------------------------------------------
(* C20 *)

\* what holds of every state, for C20: a snapshot is reported as deleted or
\* as failed once at most and never as both, the counters count those
\* reports, and their sum is at most the number of snapshots the for loop has
\* taken -- less one while the snapshot it is at is not done with
C20_State ==
    \A p \in projects :
        /\ \A i \in 1..Len(store[p]) :
              Cardinality(EventsOf(p, "Deleted snapshot", i))
                  + Cardinality(EventsOf(p, "Failed to delete snapshot", i)) <= 1
        /\ destroyed_snapshot[p] = Cardinality(Deletions(p))
        /\ errors[p] = Cardinality(Failures(p))
        /\ destroyed_snapshot[p] + errors[p] <= idx[p]
        /\ idx[p] <= Len(listing[p])
        /\ pc[p] \in {"body", "delete", "attempt", "sleep"} =>
              destroyed_snapshot[p] + errors[p] <= idx[p] - 1

\* what holds of every step, for C20: no counter decreases, and a step adds
\* one to one counter at most
C20_Step ==
    \A p \in projects :
        /\ destroyed_snapshot'[p] >= destroyed_snapshot[p]
        /\ errors'[p] >= errors[p]
        /\ destroyed_snapshot'[p] + errors'[p] <= destroyed_snapshot[p] + errors[p] + 1

\* C20: each listed snapshot adds at most 1 to destroyed_snapshot + errors
\* and never to both, so that in every state of a scan the sum is at most the
\* number of snapshots processed so far, and both counters only increase.
C20_CountersBounded == [] C20_State /\ [][C20_Step]_vars

\* the first snapshot was destroyed and the second failed: the sum of the
\* counters is the number of snapshots processed
C20_Witness ==
    \E p \in projects :
        /\ pc[p] = "for"
        /\ idx[p] = 2
        /\ EventsOf(p, "Deleted snapshot", listing[p][1].id) # {}
        /\ EventsOf(p, "Failed to delete snapshot", listing[p][2].id) # {}
        /\ destroyed_snapshot[p] + errors[p] = idx[p]

====
